---- MODULE Spec2Model ----
(***************************************************************************)
(* Call orchestration of src/asterisk_dialer_api.py: the call-record file, *)
(* the initiate and hangup endpoints, the leg originator                   *)
(* (initiate_call_asterisk), the connection monitor (monitor_call_status)  *)
(* and teardown (hangup_call).                                             *)
(*                                                                         *)
(* Scheduling.  The endpoints are coroutines without an await, so they run *)
(* one at a time on the event loop.  initiate_call_asterisk and            *)
(* hangup_call are background tasks of plain functions (run on pool        *)
(* threads) and monitor_call_status is a thread of its own: these          *)
(* interleave freely with each other and with the endpoints.  A thread is  *)
(* cut where it touches the record file: load_call_records, the open(..,   *)
(* 'w') of save_call_records (which truncates the file) and its            *)
(* json.dump.  What a thread does between two file accesses is local and   *)
(* is part of the step that follows it.                                    *)
(*                                                                         *)
(* Left out of a record: updated_at, start_time, the action ids and the    *)
(* request's dialing parameters; they are written but never read by the    *)
(* operations modelled here.                                               *)
(***************************************************************************)
EXTENDS Integers, Sequences, FiniteSets, TLC

\* ------------------------------------------------------------- bounds
\* Calls that the initiate endpoint is asked to place.
NumCalls == 2
\* Hangup requests the hangup endpoint accepts in one run.
MaxHangups == 2
\* Requests (initiate and hangup) the server accepts in one run.
MaxRequests == 3
\* Longest channel listing one reply of the switch holds.
MaxList == 2
\* Most channels of other calls the switch lists to the injector.
MaxActive == 6
\* Most characters one recv of the AMI socket returns.
MaxChunk == 2
\* Most recv results the switch has ready for one action.
MaxReads == 2
\* The blocks of one reply (an event list).
MaxBlocks == 3

\* ------------------------------------------------- program constants
\* "len(active_channels) <= 5": the cap of the injector's last resort.
last_resort_cap == 5
max_wait_time == 30
wait_interval == 2
\* "total_waited >= 10": the grace threshold of the one-participant rule.
grace_wait == 10

\* random.choices('0123456789', k=6): the length of a conference room id.
room_digits == 6

\* custom/multi-backend-bridge.py: consecutive failures that disable a
\* backend and the cooldown in seconds (the defaults of TTS_MAX_FAILURES
\* and TTS_CIRCUIT_BREAKER_TIMEOUT), the text length below which the
\* faster backend is preferred, the sort key of a backend without
\* requests, the response time from which the score gives nothing.
MAX_FAILURES == 3
CIRCUIT_BREAKER_TIMEOUT == 300
short_text == 50
untried_key == 999
slow_time == 10

Calls == 1..NumCalls
Hangups == 1..MaxHangups

\* An optional value: None is <<>>, a present value v is <<v>>.
None == <<>>
Some(v) == <<v>>

\* conf_room = ''.join(random.choices('0123456789', k=6)): two of the 10^6
\* strings of six decimal digits.
Rooms == {<<1, 0, 0, 0, 0, 1>>, <<9, 0, 2, 1, 0, 0>>}

\* Channel identifiers the switch may report, for a call with
\* sip_name "2001" and destination "5551234567".
AgentChan == "SIP/2001-00000001"
DestChan == "SIP/trunk/5551234567-00000002"
BothChan == "Local/5551234567@from-2001-00000003"
OtherChan == "SIP/3000-00000004"
Channels == {AgentChan, DestChan, BothChan, OtherChan}

\* `sip_name in c` and `destination in c`: the substring tests.
ContainsSip(ch) == ch \in {AgentChan, BothChan}
ContainsDest(ch) == ch \in {DestChan, BothChan}

VARIABLES
    file,   \* the records of CALL_RECORDS_FILE as last completely written
    torn,   \* a writer has opened the file with 'w' and not yet dumped into it
    ep,     \* initiate_call, per call: its position and its loaded list
    orig,   \* initiate_call_asterisk, per call
    mon,    \* monitor_call_status, per call
    hist,   \* history of a call's monitor run: the switch's replies, the exit taken
    hang,   \* hangup_call tasks, per accepted hangup request
    play,   \* play_tts_in_conference, for one accepted play-tts request
    ami,    \* one AMI client session: ami_connect, ami_send_action, ami_close
    bridge  \* the multi-backend TTS bridge: BACKENDS, the clock, one /tts request

vars == <<file, torn, ep, orig, mon, hist, hang, play, ami, bridge>>


\* ------------------------------------------------------ record store
\* The call record initiate_call builds (status "initiated", no room yet).
NewRecord(c) ==
    [id |-> c, status |-> "initiated", conference_room |-> None,
     channels |-> None, end_time |-> FALSE, error |-> FALSE,
     error_msg |-> FALSE]

\* load_call_records: the parsed file; a file that a writer has truncated
\* and not yet rewritten does not parse, and the except branch returns [].
LoadCallRecords == IF torn THEN <<>> ELSE file

\* Position of the first record with this id in a list, 0 if there is none.
IndexOf(recs, c) ==
    IF \E i \in DOMAIN recs : recs[i].id = c
    THEN CHOOSE i \in DOMAIN recs :
             /\ recs[i].id = c
             /\ \A j \in DOMAIN recs : recs[j].id = c => i <= j
    ELSE 0

\* get_call_by_id: the record as an optional value.
GetCallById(c) ==
    LET recs == LoadCallRecords
        i == IndexOf(recs, c)
    IN IF i = 0 THEN None ELSE Some(recs[i])

\* An update that would write the status and drop the additional data.
MergeStatusOnly(rec, upd) == [rec EXCEPT !.status = upd.status]

\* record['status'] = status; record[key] = value for the additional data.
Merge(rec, upd) ==
    [f \in DOMAIN rec |->
        IF f = "status" THEN upd.status
        ELSE IF f \in DOMAIN upd.data THEN upd.data[f]
        ELSE rec[f]]

NoData == <<>>
NoUpd == [status |-> "", data |-> NoData]

\* The threads and coroutines before they run.
IdleEp == [pc |-> "idle", recs |-> <<>>]
IdleOrig ==
    [pc |-> "idle", room |-> None, agent_resp |-> "unsent",
     customer_resp |-> "unsent", upd |-> NoUpd, recs |-> <<>>, res |-> "none"]
IdleMon ==
    [pc |-> "idle", total_waited |-> 0, connected |-> {}, how |-> "none",
     upd |-> NoUpd, recs |-> <<>>, res |-> "none"]
IdleHist ==
    [seen |-> {}, cur |-> FALSE, failed |-> FALSE, junk |-> FALSE,
     empties |-> FALSE, first |-> None, most |-> 0, how |-> "none", at |-> 0]
FreeHang ==
    [pc |-> "free", call |-> 0, room |-> None, kicked |-> FALSE,
     upd |-> NoUpd, recs |-> <<>>, res |-> "none"]
\* The injector: the record snapshot it was handed (call, status, room),
\* whether the TTS file is there, the AMI connection, the replies it read
\* (core, rooms_ok, listed, cli), the channels it chose and by which rule
\* (how), and the playback commands it issued.
FreePlay ==
    [pc |-> "free", call |-> 0, status |-> "", room |-> None, tts |-> "",
     conn |-> "none", core |-> None, rooms_ok |-> TRUE, listed |-> None,
     cli |-> None, channels |-> <<>>, how |-> "none",
     ami_sent |-> <<>>, ami_got |-> <<>>, cli_sent |-> <<>>,
     cli_got |-> <<>>, res |-> "none"]
\* The AMI client before it connects: fd is the operating system's
\* socket, sock what ami_connect returned to its caller (None or the
\* socket), stream the recv results of the last action, used how many of
\* them it consumed, result what it returned, left the texts at the head
\* of stream that the action before had left unread.
IdleAmi ==
    [pc |-> "idle", fd |-> "none", sock |-> FALSE, stream |-> <<>>,
     used |-> 0, result |-> None, left |-> <<>>]

\* The first half of update_call_status, run by a thread in position p:
\* load the list and change the record in the loaded list; "return None"
\* when the id is not in it.
UpdLoaded(p, c) ==
    LET recs == LoadCallRecords
        i == IndexOf(recs, c)
    IN IF i = 0
       THEN [p EXCEPT !.pc = "done", !.res = "notfound"]
       ELSE [p EXCEPT !.pc = "trunc",
                      !.recs = [recs EXCEPT ![i] = Merge(recs[i], p.upd)]]

\* save_call_records, open(CALL_RECORDS_FILE, 'w'): the file is truncated.
UpdOpened(p) == [p EXCEPT !.pc = "write"]

\* save_call_records, json.dump and close: the file holds the writer's
\* list, and update_call_status returns the record.
UpdWritten(p) == [p EXCEPT !.pc = "done", !.res = "written", !.recs = <<>>]

\* A thread that has returned: of its locals only the outcome (res, and
\* the status it asked for) is kept.
Returned(p, idle) ==
    IF p.pc = "done"
    THEN [idle EXCEPT !.pc = "done", !.res = p.res,
                      !.upd = [status |-> p.upd.status, data |-> NoData]]
    ELSE p

\* ----------------------------------------------- initiate endpoint
\* The requests accepted so far.
Accepted ==
    Cardinality({c \in Calls : ep[c].pc # "idle"})
        + Cardinality({h \in Hangups : hang[h].pc # "free"})

\* No initiate_call coroutine is between its load and its save: the event
\* loop is free for another endpoint.
LoopFree == \A d \in Calls : ep[d].pc \in {"idle", "done"}

\* records = load_call_records(); records.append(call_record)
\* Calls are numbered in the order of their requests.
EpLoad(c) ==
    /\ ep[c].pc = "idle"
    /\ Accepted < MaxRequests
    /\ LoopFree
    /\ \A d \in Calls : d < c => ep[d].pc = "done"
    /\ ep' = [ep EXCEPT ![c] = [pc |-> "trunc",
                                recs |-> Append(LoadCallRecords, NewRecord(c))]]
    /\ UNCHANGED <<file, torn, orig, mon, hist, hang, play, ami, bridge>>

EpOpen(c) ==
    /\ ep[c].pc = "trunc"
    /\ torn' = TRUE
    /\ ep' = [ep EXCEPT ![c].pc = "write"]
    /\ UNCHANGED <<file, orig, mon, hist, hang, play, ami, bridge>>

\* json.dump, then background_tasks.add_task(initiate_call_asterisk, ...)
EpWrite(c) ==
    /\ ep[c].pc = "write"
    /\ file' = ep[c].recs
    /\ torn' = FALSE
    /\ ep' = [ep EXCEPT ![c] = [pc |-> "done", recs |-> <<>>]]
    /\ orig' = [orig EXCEPT ![c].pc = "start"]
    /\ UNCHANGED <<mon, hist, hang, play, ami, bridge>>

\* --------------------------------------------------- leg originator
\* An originator that would start the monitor thread before ami_connect,
\* so that the monitor also runs when the connection fails.
OrigRunMonitorsAnyway(c) ==
    /\ orig[c].pc = "start"
    /\ \E room \in Rooms, conn \in BOOLEAN, aresp \in {"ok", "none"},
          cresp \in {"ok", "none"} :
        /\ orig' = [orig EXCEPT ![c] =
               IF conn
               THEN [@ EXCEPT !.pc = "load", !.room = Some(room),
                              !.agent_resp = aresp, !.customer_resp = cresp,
                              !.upd = [status |-> "dialing",
                                       data |-> [conference_room |-> Some(room)]]]
               ELSE [@ EXCEPT !.pc = "load", !.room = Some(room),
                              !.upd = [status |-> "failed",
                                       data |-> [error |-> TRUE]]]]
        /\ mon' = [mon EXCEPT ![c].pc = "sleep5"]
    /\ UNCHANGED <<file, torn, ep, hist, hang, play, ami, bridge>>

\* initiate_call_asterisk up to its update_call_status: the room, the AMI
\* connection, both Originate actions (ami_send_action returns None when
\* sock.send fails, the action is then not sent, and `response or ''` goes
\* on), the monitor thread.  agent_resp and customer_resp are "ok" for a
\* reply and "none" for None.
\* Only a failed ami_connect raises, and then the except branch writes
\* "failed".
OrigRun(c) ==
    /\ orig[c].pc = "start"
    /\ \E room \in Rooms, conn \in BOOLEAN, aresp \in {"ok", "none"},
          cresp \in {"ok", "none"} :
        IF conn
        THEN /\ orig' = [orig EXCEPT ![c] =
                    [@ EXCEPT !.pc = "load", !.room = Some(room),
                              !.agent_resp = aresp, !.customer_resp = cresp,
                              !.upd = [status |-> "dialing",
                                       data |-> [conference_room |-> Some(room)]]]]
             /\ mon' = [mon EXCEPT ![c].pc = "sleep5"]
        ELSE /\ orig' = [orig EXCEPT ![c] =
                    [@ EXCEPT !.pc = "load", !.room = Some(room),
                              !.upd = [status |-> "failed",
                                       data |-> [error |-> TRUE]]]]
             /\ mon' = mon
    /\ UNCHANGED <<file, torn, ep, hist, hang, play, ami, bridge>>

\* update_call_status of the originator.  The replies to the two Originate
\* actions are not read again from here on.
OrigLoad(c) ==
    /\ orig[c].pc = "load"
    /\ orig' = [orig EXCEPT ![c] =
                   Returned(UpdLoaded([@ EXCEPT !.agent_resp = "read",
                                                !.customer_resp = "read"], c),
                            IdleOrig)]
    /\ UNCHANGED <<file, torn, ep, mon, hist, hang, play, ami, bridge>>

OrigOpen(c) ==
    /\ orig[c].pc = "trunc"
    /\ torn' = TRUE
    /\ orig' = [orig EXCEPT ![c] = UpdOpened(@)]
    /\ UNCHANGED <<file, ep, mon, hist, hang, play, ami, bridge>>

OrigWrite(c) ==
    /\ orig[c].pc = "write"
    /\ file' = orig[c].recs
    /\ torn' = FALSE
    /\ orig' = [orig EXCEPT ![c] = Returned(UpdWritten(@), IdleOrig)]
    /\ UNCHANGED <<ep, mon, hist, hang, play, ami, bridge>>


\* ---------------------------------------------- the switch's replies
\* The duplicate-free sequences of at most n members of S: a listing names
\* a channel once.
SeqsOver(S, n) ==
    {q \in UNION {[1..k -> S] : k \in 0..n} :
        \A i, j \in DOMAIN q : i # j => q[i] # q[j]}

Range(q) == {q[i] : i \in DOMAIN q}

\* What ami_send_action returns for CoreShowChannels or ConfbridgeList:
\* None (ok = FALSE) after a socket error, else a text whose "Channel:"
\* lines name the channels of chans, in this order.
Replies(U, n) ==
    {[ok |-> FALSE, chans |-> <<>>]} \cup
    {[ok |-> TRUE, chans |-> q] : q \in SeqsOver(U, n)}

\* A line of `asterisk -rx "confbridge list <room>"` that the monitor
\* counts as a participant although its first word is no SIP/ or Local/
\* channel.
JunkRow == "Menu: default_menu"

\* The participant lines of the CLI listing; <<>> also stands for an empty
\* output, "No active conferences" and a failed subprocess.run.
CliOutputs(U, n) == SeqsOver(U \cup {JunkRow}, n)

\* next((c for c in active_channels if <test> in c), None)
FirstSip(active) ==
    IF \E i \in DOMAIN active : ContainsSip(active[i])
    THEN Some(active[CHOOSE i \in DOMAIN active :
                  /\ ContainsSip(active[i])
                  /\ \A j \in DOMAIN active : ContainsSip(active[j]) => i <= j])
    ELSE None

\* A destination lookup that would test for the sip_name once more.
FirstDestBySip(active) == FirstSip(active)

FirstDest(active) ==
    IF \E i \in DOMAIN active : ContainsDest(active[i])
    THEN Some(active[CHOOSE i \in DOMAIN active :
                  /\ ContainsDest(active[i])
                  /\ \A j \in DOMAIN active : ContainsDest(active[j]) => i <= j])
    ELSE None

\* ------------------------------------------------ connection monitor
\* The steps of monitor_call_status between its two accesses to the record
\* file are functions of its local state m (position, total_waited,
\* connected_channels) and of the switch's reply.

\* A return through update_call_status(call_id, "connected", data); how
\* names the branch taken.
MonMark(m, how, data, connected) ==
    [m EXCEPT !.pc = "load", !.how = how, !.connected = connected,
              !.upd = [status |-> "connected", data |-> data]]

ChannelsData(connected) == [channels |-> Some(connected)]

\* A monitor that would store its exception under the key of the
\* originator's failure.
ErrorDataAsError == [error |-> TRUE]

\* {"error_msg": str(e)}
ErrorData == [error_msg |-> TRUE]

\* An except branch that would give the call up instead.
ErrorMarkFailed(m) ==
    [m EXCEPT !.pc = "load", !.how = "error",
              !.upd = [status |-> "failed", data |-> ErrorData]]

\* The except branch: "Mark as connected anyway to allow playing TTS".
ErrorMark(m) == MonMark(m, "error", ErrorData, m.connected)

\* A loop test that would admit one more pass.
KeepWaitingInclusive(total_waited) == total_waited <= max_wait_time

\* while total_waited < max_wait_time
KeepWaiting(total_waited) == total_waited < max_wait_time

\* "If we've seen both channels": len(connected_channels) >= 2
BothSeen(connected) == Cardinality(connected) >= 2

\* A two-member test that would look at the listing of this poll only.
BothListedInOnePoll(count, connected) == count >= 2

\* participant_count >= 2 or len(connected_channels) >= 2
BothListed(count, connected) == count >= 2 \/ Cardinality(connected) >= 2

\* The one-participant rule without its grace period.
OneWithoutGrace(count, connected, total_waited) ==
    count = 1 \/ Cardinality(connected) = 1

\* (participant_count == 1 or len(connected_channels) == 1)
\*     and total_waited >= 10
OneAfterGrace(count, connected, total_waited) ==
    /\ count = 1 \/ Cardinality(connected) = 1
    /\ total_waited >= grace_wait

\* ami_connect: a failed connect raises into the except branch.
ConnectStep(m, conn) ==
    IF conn THEN [m EXCEPT !.pc = "core"] ELSE ErrorMark(m)

\* One pass of the loop, first part: CoreShowChannels and the test on the
\* sip_name / destination channels.  A None reply raises at .splitlines().
CoreStep(m, reply) ==
    LET active == reply.chans
        found == Range(FirstSip(active)) \cup Range(FirstDest(active))
        conn1 == m.connected \cup found
    IN IF ~reply.ok
       THEN ErrorMark(m)
       ELSE IF found # {} /\ BothSeen(conn1)
       THEN MonMark(m, "detect", NoData, conn1)
       ELSE [m EXCEPT !.pc = "conf", !.connected = conn1]

\* A ConfbridgeList step that would keep only the channels of this
\* listing (connected_channels = set(conf_channels)).
ConfStepOnlyListed(m, reply) ==
    LET participant_count == Len(reply.chans)
        conn2 == Range(reply.chans)
    IN IF ~reply.ok
       THEN ErrorMark(m)
       ELSE IF BothListed(participant_count, conn2)
       THEN MonMark(m, "detect", ChannelsData(conn2), conn2)
       ELSE IF OneAfterGrace(participant_count, conn2, m.total_waited)
       THEN MonMark(m, "grace", ChannelsData(conn2), conn2)
       ELSE [m EXCEPT !.pc = "cli", !.connected = conn2]

\* Second part: ConfbridgeList for the room.
ConfStep(m, reply) ==
    LET participant_count == Len(reply.chans)
        conn2 == m.connected \cup Range(reply.chans)
    IN IF ~reply.ok
       THEN ErrorMark(m)
       ELSE IF BothListed(participant_count, conn2)
       THEN MonMark(m, "detect", ChannelsData(conn2), conn2)
       ELSE IF OneAfterGrace(participant_count, conn2, m.total_waited)
       THEN MonMark(m, "grace", ChannelsData(conn2), conn2)
       ELSE [m EXCEPT !.pc = "cli", !.connected = conn2]

\* Third part: the CLI listing, then time.sleep(wait_interval) and
\* total_waited += wait_interval.
CliStep(m, rows) ==
    LET cli_participants == Len(rows)
        conn3 == m.connected \cup (Range(rows) \ {JunkRow})
    IN IF rows # <<>> /\ BothListed(cli_participants, conn3)
       THEN MonMark(m, "detect", ChannelsData(conn3), conn3)
       ELSE IF rows # <<>> /\ cli_participants = 1 /\ m.total_waited >= grace_wait
       THEN MonMark(m, "grace", ChannelsData(conn3), conn3)
       ELSE [m EXCEPT !.pc = "core", !.connected = conn3,
                      !.total_waited = @ + wait_interval]

\* The loop ends with total_waited >= max_wait_time: "connected" anyway.
TimeoutStep(m) == MonMark(m, "timeout", ChannelsData(m.connected), m.connected)

\* The thread's state once it is inside update_call_status: the loop's
\* locals are no longer used.
Settle(m) ==
    IF m.pc = "load"
    THEN [m EXCEPT !.total_waited = 0, !.connected = {}, !.how = "none"]
    ELSE m

\* The local successors of a local state, for every reply of a switch that
\* reports channels of U in listings of at most n lines.
MonLocalSteps(m, U, n) ==
    CASE m.pc = "connect" -> {ConnectStep(m, conn) : conn \in BOOLEAN}
      [] m.pc = "core" /\ KeepWaiting(m.total_waited) ->
             {CoreStep(m, reply) : reply \in Replies(U, n)}
      [] m.pc = "core" /\ ~KeepWaiting(m.total_waited) -> {TimeoutStep(m)}
      [] m.pc = "conf" -> {ConfStep(m, reply) : reply \in Replies(U, n)}
      [] m.pc = "cli" -> {CliStep(m, rows) : rows \in CliOutputs(U, n)}
      [] OTHER -> {}

RECURSIVE MonReach(_, _, _, _)
\* Every local state the monitor can reach from the states of frontier.
MonReach(seen, frontier, U, n) ==
    IF frontier = {} THEN seen
    ELSE LET next == UNION {MonLocalSteps(m, U, n) : m \in frontier} \ seen
         IN MonReach(seen \cup next, next, U, n)

\* The states in which a monitor that starts in m can enter its
\* update_call_status.
MonOutcomes(m, U, n) ==
    {Settle(r) : r \in {x \in MonReach({m}, {m}, U, n) : x.pc = "load"}}

\* The channels the switch reports in Spec, where the threads of all
\* calls interleave: none (every listing is empty, a reply may still fail
\* and the CLI may still print a line).
SpecChannels == {}

\* time.sleep(5); get_call_by_id.  Without a record the monitor returns.
MonStart(c) ==
    /\ mon[c].pc = "sleep5"
    /\ mon' = [mon EXCEPT ![c] =
                  IF GetCallById(c) = None
                  THEN [@ EXCEPT !.pc = "done", !.res = "norecord"]
                  ELSE [@ EXCEPT !.pc = "connect"]]
    /\ UNCHANGED <<file, torn, ep, orig, hist, hang, play, ami, bridge>>

\* The updates a monitor run can end with in Spec.
SpecOutcomes ==
    {r.upd : r \in MonOutcomes([pc |-> "connect", total_waited |-> 0,
                                connected |-> {}, how |-> "none",
                                upd |-> NoUpd, recs |-> <<>>, res |-> "none"],
                               SpecChannels, MaxList)}

\* From ami_connect to the call of update_call_status in one step: the
\* monitor touches nothing that another thread reads in between.
MonRun(c) ==
    /\ mon[c].pc = "connect"
    /\ \E upd \in SpecOutcomes :
        mon' = [mon EXCEPT ![c] = [@ EXCEPT !.pc = "load", !.upd = upd]]
    /\ UNCHANGED <<file, torn, ep, orig, hist, hang, play, ami, bridge>>

\* The same run step by step, with the history of the switch's replies.
\* hist: seen, the channels reported so far (of CoreShowChannels those that
\* contain sip_name or destination); cur, the pass under way has reported
\* a channel; empties, a finished pass reported none; failed, a reply was
\* None; junk, the CLI listed a line that is no channel; first, the first
\* CoreShowChannels listing; most, the largest number of entries a single
\* listing has had; how and at, the branch that marked the call and
\* total_waited at that moment.
HistMark(h, r) ==
    IF r.pc = "load" THEN [h EXCEPT !.how = r.how, !.at = r.total_waited] ELSE h

HistCount(h, n) == [h EXCEPT !.most = IF n > @ THEN n ELSE @]

HistReply(h, ok, chs) ==
    IF ok THEN [h EXCEPT !.seen = @ \cup chs, !.cur = @ \/ chs # {}]
    ELSE [h EXCEPT !.failed = TRUE]

MonConnect(c) ==
    /\ mon[c].pc = "connect"
    /\ \E conn \in BOOLEAN :
        LET r == ConnectStep(mon[c], conn)
        IN /\ mon' = [mon EXCEPT ![c] = Settle(r)]
           /\ hist' = [hist EXCEPT ![c] =
                         HistMark([@ EXCEPT !.failed = ~conn], r)]
    /\ UNCHANGED <<file, torn, ep, orig, hang, play, ami, bridge>>

MonCore(c) ==
    /\ mon[c].pc = "core"
    /\ KeepWaiting(mon[c].total_waited)
    /\ \E reply \in Replies(Channels, MaxList) :
        LET r == CoreStep(mon[c], reply)
            matching == {ch \in Range(reply.chans) :
                            ContainsSip(ch) \/ ContainsDest(ch)}
        IN /\ mon' = [mon EXCEPT ![c] = Settle(r)]
           /\ hist' = [hist EXCEPT ![c] =
                         HistMark([HistCount(HistReply(@, reply.ok, matching),
                                             Len(reply.chans)) EXCEPT
                                      !.first = IF @ = None /\ reply.ok
                                                THEN Some(reply.chans) ELSE @],
                                  r)]
    /\ UNCHANGED <<file, torn, ep, orig, hang, play, ami, bridge>>

MonConf(c) ==
    /\ mon[c].pc = "conf"
    /\ \E reply \in Replies(Channels, MaxList) :
        LET r == ConfStep(mon[c], reply)
        IN /\ mon' = [mon EXCEPT ![c] = Settle(r)]
           /\ hist' = [hist EXCEPT ![c] =
                         HistMark(HistCount(HistReply(@, reply.ok,
                                                      Range(reply.chans)),
                                            Len(reply.chans)), r)]
    /\ UNCHANGED <<file, torn, ep, orig, hang, play, ami, bridge>>

MonCli(c) ==
    /\ mon[c].pc = "cli"
    /\ \E rows \in CliOutputs(Channels, MaxList) :
        LET r == CliStep(mon[c], rows)
            h == HistCount(
                     HistReply([hist[c] EXCEPT !.junk = @ \/ JunkRow \in Range(rows)],
                               TRUE, Range(rows) \ {JunkRow}),
                     Len(rows))
        IN /\ mon' = [mon EXCEPT ![c] = Settle(r)]
           /\ hist' = [hist EXCEPT ![c] =
                         IF r.pc = "load" THEN HistMark(h, r)
                         ELSE [h EXCEPT !.empties = @ \/ ~h.cur, !.cur = FALSE]]
    /\ UNCHANGED <<file, torn, ep, orig, hang, play, ami, bridge>>

MonTimeout(c) ==
    /\ mon[c].pc = "core"
    /\ ~KeepWaiting(mon[c].total_waited)
    /\ LET r == TimeoutStep(mon[c])
       IN /\ mon' = [mon EXCEPT ![c] = Settle(r)]
          /\ hist' = [hist EXCEPT ![c] = HistMark(@, r)]
    /\ UNCHANGED <<file, torn, ep, orig, hang, play, ami, bridge>>

\* update_call_status(call_id, "connected", ...) of the monitor.
MonLoad(c) ==
    /\ mon[c].pc = "load"
    /\ mon' = [mon EXCEPT ![c] = Returned(UpdLoaded(@, c), IdleMon)]
    /\ UNCHANGED <<file, torn, ep, orig, hist, hang, play, ami, bridge>>

MonOpen(c) ==
    /\ mon[c].pc = "trunc"
    /\ torn' = TRUE
    /\ mon' = [mon EXCEPT ![c] = UpdOpened(@)]
    /\ UNCHANGED <<file, ep, orig, hist, hang, play, ami, bridge>>

MonWrite(c) ==
    /\ mon[c].pc = "write"
    /\ file' = mon[c].recs
    /\ torn' = FALSE
    /\ mon' = [mon EXCEPT ![c] = Returned(UpdWritten(@), IdleMon)]
    /\ UNCHANGED <<ep, orig, hist, hang, play, ami, bridge>>

\* ----------------------------------------------------------- teardown
\* The hangup endpoint: get_call_by_id, the "already ended" test, then
\* background_tasks.add_task(hangup_call, call_record) with the record as
\* it was read here.
HangupReq(h, c) ==
    /\ hang[h].pc = "free"
    /\ Accepted < MaxRequests
    /\ \A g \in Hangups : g < h => hang[g].pc # "free"
    /\ LoopFree
    /\ GetCallById(c) # None
    /\ GetCallById(c)[1].status \notin {"completed", "failed"}
    /\ hang' = [hang EXCEPT ![h] =
                  [@ EXCEPT !.pc = "start", !.call = c,
                            !.room = GetCallById(c)[1].conference_room]]
    /\ UNCHANGED <<file, torn, ep, orig, mon, hist, play, ami, bridge>>

\* hangup_call has returned: what is kept is the call it was for, whether
\* it ran the kick command, and its outcome.
HangReturned(p) ==
    IF p.pc = "done"
    THEN [Returned(p, FreeHang) EXCEPT !.call = p.call, !.kicked = p.kicked]
    ELSE p

\* A hangup_call that would not look at the exit code of the kick command
\* (subprocess.run without check=True).
HangStepUnchecked(p, kick) ==
    IF p.room = None
    THEN HangReturned([p EXCEPT !.pc = "done", !.res = "error"])
    ELSE HangReturned(
             UpdLoaded([p EXCEPT !.kicked = kick,
                                 !.upd = [status |-> "completed",
                                          data |-> [end_time |-> TRUE]]],
                       p.call))

\* hangup_call up to the load of its update_call_status: no room in the
\* record raises, a failing "confbridge kick <room> all" raises
\* (check=True), and the except branch returns None.
HangStep(p, kick) ==
    IF p.room = None \/ ~kick
    THEN HangReturned([p EXCEPT !.pc = "done", !.res = "error"])
    ELSE HangReturned(
             UpdLoaded([p EXCEPT !.kicked = TRUE,
                                 !.upd = [status |-> "completed",
                                          data |-> [end_time |-> TRUE]]],
                       p.call))

HangRun(h) ==
    /\ hang[h].pc = "start"
    /\ \E kick \in BOOLEAN :
        hang' = [hang EXCEPT ![h] = HangStep(@, kick)]
    /\ UNCHANGED <<file, torn, ep, orig, mon, hist, play, ami, bridge>>

HangOpen(h) ==
    /\ hang[h].pc = "trunc"
    /\ torn' = TRUE
    /\ hang' = [hang EXCEPT ![h] = UpdOpened(@)]
    /\ UNCHANGED <<file, ep, orig, mon, hist, play, ami, bridge>>

HangWrite(h) ==
    /\ hang[h].pc = "write"
    /\ file' = hang[h].recs
    /\ torn' = FALSE
    /\ hang' = [hang EXCEPT ![h] = HangReturned(UpdWritten(@))]
    /\ UNCHANGED <<ep, orig, mon, hist, play, ami, bridge>>

\* ------------------------------------------------------- the injector
\* Channels of other calls, in the order the switch lists them.
OtherSeq ==
    <<"SIP/3000-00000004", "SIP/3001-00000005", "SIP/3002-00000006",
      "SIP/3003-00000007", "SIP/3004-00000008", "SIP/3005-00000009",
      "SIP/3006-0000000a", "SIP/3007-0000000b">>

\* CoreShowChannels listings: channels of this call's legs, then up to n
\* channels of other calls.
ActiveListings(n) ==
    {m \o SubSeq(OtherSeq, 1, k) :
        m \in SeqsOver({AgentChan, DestChan}, 2), k \in 0..n}

CoreReplies(n) ==
    {[ok |-> FALSE, chans |-> <<>>]} \cup
    {[ok |-> TRUE, chans |-> q] : q \in ActiveListings(n)}

\* The play-tts endpoint: get_call_by_id, the status test, then
\* background_tasks.add_task(play_tts_in_conference, call_record).
PlayReq(c) ==
    /\ play.pc = "free"
    /\ LoopFree
    /\ GetCallById(c) # None
    /\ GetCallById(c)[1].status \in {"connected", "dialing"}
    /\ play' = [play EXCEPT !.pc = "start", !.call = c,
                            !.status = GetCallById(c)[1].status,
                            !.room = GetCallById(c)[1].conference_room]
    /\ UNCHANGED <<file, torn, ep, orig, mon, hist, hang, ami, bridge>>

\* raise Exception(...): the except branch returns False.
PlayFail(p) == [p EXCEPT !.pc = "done", !.res = "failed"]

\* call_record.get('tts_file') and os.path.exists(tts_file): the path is
\* there and the file exists, the file is gone, or the record has no path
\* (initiate_call stores one in every record it makes).
TtsStates == {"ok", "nofile", "absent"}

\* An injector that would connect to the switch before it looks at the
\* record.
PlayCheckStepConnectsFirst(p, tts, conn) ==
    IF ~conn
    THEN PlayFail([p EXCEPT !.tts = tts, !.conn = "failed"])
    ELSE IF p.room = None \/ tts # "ok"
    THEN PlayFail([p EXCEPT !.tts = tts, !.conn = "ok"])
    ELSE [p EXCEPT !.tts = tts, !.conn = "ok", !.pc = "core"]

\* The tests on conference_room and tts_file, then ami_connect.
PlayCheckStep(p, tts, conn) ==
    IF p.room = None \/ tts # "ok"
    THEN PlayFail([p EXCEPT !.tts = tts])
    ELSE IF ~conn
    THEN PlayFail([p EXCEPT !.tts = tts, !.conn = "failed"])
    ELSE [p EXCEPT !.tts = tts, !.conn = "ok", !.pc = "core"]

\* CoreShowChannels and ConfbridgeListRooms: the replies are logged, the
\* first is kept for later.
PlayCoreStep(p, reply, rooms_ok) ==
    [p EXCEPT !.core = Some(reply), !.rooms_ok = rooms_ok, !.pc = "conf"]

\* An injector that would go on to the wider search although the room
\* listing named channels.
PlayConfStepSearchesOn(p, reply) ==
    IF ~reply.ok
    THEN PlayFail(p)
    ELSE IF ~p.core[1].ok
    THEN PlayFail([p EXCEPT !.listed = Some(reply.chans)])
    ELSE [p EXCEPT !.listed = Some(reply.chans), !.pc = "cli"]

\* ConfbridgeList for the room.  A None reply raises at .splitlines(); with
\* an empty listing the CoreShowChannels reply is parsed, and raises the
\* same way when it is None.
PlayConfStep(p, reply) ==
    IF ~reply.ok
    THEN PlayFail(p)
    ELSE IF reply.chans # <<>>
    THEN [p EXCEPT !.listed = Some(reply.chans), !.channels = reply.chans,
                   !.how = "conf", !.pc = "ami"]
    ELSE IF ~p.core[1].ok
    THEN PlayFail([p EXCEPT !.listed = Some(<<>>)])
    ELSE [p EXCEPT !.listed = Some(<<>>), !.pc = "cli"]

\* (sip_name and sip_name in channel) or (destination and destination in
\* channel)
EndpointMatch(ch) == ContainsSip(ch) \/ ContainsDest(ch)

\* A last resort without its cap.
WithinCapUnbounded(active) == active # <<>>

\* active_channels and len(active_channels) <= 5
WithinCap(active) == active # <<>> /\ Len(active) <= last_resort_cap

\* The CLI listing (lines that start with SIP/ or Local/), then the
\* channels matched by endpoint name, then the last resort.
PlayCliStep(p, rows) ==
    LET active == p.core[1].chans
        fromCli == SelectSeq(rows, LAMBDA r : r # JunkRow)
        matched == SelectSeq(active, EndpointMatch)
        q == [p EXCEPT !.cli = Some(rows)]
    IN IF fromCli # <<>>
       THEN [q EXCEPT !.channels = fromCli, !.how = "cli", !.pc = "ami"]
       ELSE IF matched # <<>>
       THEN [q EXCEPT !.channels = matched, !.how = "match", !.pc = "ami"]
       ELSE IF WithinCap(active)
       THEN [q EXCEPT !.channels = active, !.how = "all", !.pc = "ami"]
       ELSE PlayFail(q)

RECURSIVE AmiPlayback(_, _)
\* The Originate loop over the channels, from the i-th on.  replies[j]:
\* the reply to the command for the j-th channel holds "Success" (a None
\* reply raises at the test, inside the try of that channel, and the loop
\* goes on like after a reply without "Success").  `success = True; break`
\* at the first such reply.  sent: the commands issued.
AmiPlayback(replies, i) ==
    IF i > Len(replies) THEN [sent |-> Len(replies), success |-> FALSE]
    ELSE IF replies[i] THEN [sent |-> i, success |-> TRUE]
    ELSE AmiPlayback(replies, i + 1)

\* A fallback that would run whatever the primary strategy reported.
FallsBackAlways(success) == TRUE

\* if not success: the CLI approach as a fallback
FallsBack(success) == ~success

\* The primary strategy, then the test for the fallback.  ami_sent: the
\* channels a command was issued for; ami_got: the replies to them.
PlayAmiStep(p, replies) ==
    LET r == AmiPlayback(replies, 1)
        q == [p EXCEPT !.ami_sent = SubSeq(p.channels, 1, r.sent),
                       !.ami_got = SubSeq(replies, 1, r.sent)]
    IN IF FallsBack(r.success)
       THEN [q EXCEPT !.pc = "run"]
       ELSE [q EXCEPT !.pc = "done", !.res = "ok"]

\* What one "channel playback" command of the CLI fallback gives: an
\* output without "failed" and "error", an output with one of them, or an
\* exception of subprocess.run.
CliResults == {"ok", "failed", "raised"}

RECURSIVE CliPlayback(_, _)
\* The loop of the CLI fallback, from the i-th channel on: break at the
\* first output that names no failure; the try is around the whole loop,
\* so an exception ends it.
CliPlayback(outs, i) ==
    IF i > Len(outs) THEN [sent |-> Len(outs), success |-> FALSE]
    ELSE IF outs[i] = "raised" THEN [sent |-> i, success |-> FALSE]
    ELSE IF outs[i] = "ok" THEN [sent |-> i, success |-> TRUE]
    ELSE CliPlayback(outs, i + 1)

\* The fallback, then `if not success: raise`.
PlayRunStep(p, outs) ==
    LET r == CliPlayback(outs, 1)
        q == [p EXCEPT !.cli_sent = SubSeq(p.channels, 1, r.sent),
                       !.cli_got = SubSeq(outs, 1, r.sent)]
    IN IF r.success
       THEN [q EXCEPT !.pc = "done", !.res = "ok"]
       ELSE PlayFail(q)

\* A play_tts_in_conference that would mark the call failed when it
\* fails.
PlayStoreMarksFailed(recs, p) ==
    IF p.pc = "done" /\ p.res = "failed" /\ IndexOf(recs, p.call) # 0
    THEN [recs EXCEPT ![IndexOf(recs, p.call)].status = "failed"]
    ELSE recs

\* The record file after a step that brings the injector to p:
\* play_tts_in_conference has no update_call_status and no
\* save_call_records.
PlayStore(recs, p) == recs

\* A step of the injector to the local state p.
PlayTo(p) ==
    /\ play' = p
    /\ file' = PlayStore(file, p)
    /\ UNCHANGED <<torn, ep, orig, mon, hist, hang, ami, bridge>>

PlayCheck ==
    /\ play.pc = "start"
    /\ \E tts \in TtsStates, conn \in BOOLEAN :
        PlayTo(PlayCheckStep(play, tts, conn))

PlayCore ==
    /\ play.pc = "core"
    /\ \E reply \in CoreReplies(MaxActive), rooms_ok \in BOOLEAN :
        PlayTo(PlayCoreStep(play, reply, rooms_ok))

PlayConf ==
    /\ play.pc = "conf"
    /\ \E reply \in Replies(Channels, MaxList) :
        PlayTo(PlayConfStep(play, reply))

PlayCli ==
    /\ play.pc = "cli"
    /\ \E rows \in CliOutputs(Channels, MaxList) :
        PlayTo(PlayCliStep(play, rows))

PlayAmi ==
    /\ play.pc = "ami"
    /\ \E replies \in [1..Len(play.channels) -> BOOLEAN] :
        PlayTo(PlayAmiStep(play, replies))

PlayRun ==
    /\ play.pc = "run"
    /\ \E outs \in [1..Len(play.channels) -> CliResults] :
        PlayTo(PlayRunStep(play, outs))

\* ------------------------------------------------------ the AMI client
\* Characters of a reply: a payload character, carriage return, line feed.
CR == "\r"
LF == "\n"
Chars == {"x", CR, LF}
Terminator == <<CR, LF, CR, LF>>

\* What one sock.recv(1024).decode('utf-8') gives: a text, the empty text
\* (the switch closed the connection), socket.timeout (no data within the
\* 0.5 s of a further read), or another exception (socket error, bytes
\* that do not decode).
Chunks == UNION {[1..k -> Chars] : k \in 1..MaxChunk}
RecvResults == Chunks \cup {<<>>} \cup {<<"timeout">>, <<"error">>}
IsText(r) == r \notin {<<"timeout">>, <<"error">>}

\* The recv results an action can meet; the first read has no timeout.
Streams ==
    {st \in UNION {[1..k -> RecvResults] : k \in 1..MaxReads} :
        st[1] # <<"timeout">>}

\* "\r\n\r\n" in response
HasTerminator(response) ==
    \E i \in 1..(Len(response) - 3) : SubSeq(response, i, i + 3) = Terminator

\* A loop body that would keep the last read only.
AccumulateLast(response, buffer) == buffer

\* response += buffer
Accumulate(response, buffer) == response \o buffer

RECURSIVE ReadLoop(_, _, _)
\* The while loop of ami_send_action, entered with the i-th recv result as
\* buffer.  No further result ready within the timeout is socket.timeout.
ReadLoop(stream, i, response) ==
    LET buffer == stream[i]
        acc == Accumulate(response, buffer)
    IN IF buffer = <<>>
       THEN [result |-> Some(response), used |-> i]
       ELSE IF HasTerminator(acc)
       THEN [result |-> Some(acc), used |-> i]
       ELSE IF i + 1 > Len(stream) \/ stream[i + 1] = <<"timeout">>
       THEN [result |-> Some(acc), used |-> i + 1]
       ELSE IF stream[i + 1] = <<"error">>
       THEN [result |-> None, used |-> i + 1]
       ELSE ReadLoop(stream, i + 1, acc)

\* ami_send_action: sock.send, the first recv, the loop; any exception
\* returns None.
AmiSendAction(sent, stream) ==
    IF ~sent THEN [result |-> None, used |-> 0]
    ELSE IF stream[1] = <<"error">> THEN [result |-> None, used |-> 1]
    ELSE ReadLoop(stream, 1, <<>>)

\* ami_connect: socket.socket(), connect, the banner, the login.  Every
\* failure after socket.socket() returns None and leaves the socket as it
\* is.
ConnectOutcomes == {"nosocket", "refused", "badbanner", "rejected", "ok"}

AmiConnected(a, outcome) ==
    [a EXCEPT !.pc = IF outcome = "ok" THEN "ready" ELSE "failed",
              !.fd = IF outcome = "nosocket" THEN "none" ELSE "open",
              !.sock = (outcome = "ok")]

\* ami_close: `if sock:` the Logoff send, then sock.close(); a failing send
\* skips the close (bare except).
AmiClosed(a, logoff) ==
    [a EXCEPT !.pc = "closed",
              !.fd = IF a.sock /\ logoff THEN "closed" ELSE a.fd]

AmiConnect ==
    /\ ami.pc = "idle"
    /\ \E outcome \in ConnectOutcomes : ami' = AmiConnected(ami, outcome)
    /\ UNCHANGED <<file, torn, ep, orig, mon, hist, hang, play, bridge>>

AmiSend ==
    /\ ami.pc = "ready"
    /\ \E sent \in BOOLEAN, stream \in Streams :
        LET r == AmiSendAction(sent, stream)
        IN ami' = [ami EXCEPT !.pc = "replied",
                              !.stream = IF sent THEN stream ELSE <<>>,
                              !.used = r.used, !.result = r.result]
    /\ UNCHANGED <<file, torn, ep, orig, mon, hist, hang, play, bridge>>

\* The caller has the reply and goes on.
AmiReturn ==
    /\ ami.pc = "replied"
    /\ ami' = [ami EXCEPT !.pc = "ready", !.stream = <<>>, !.used = 0,
                          !.result = None, !.left = <<>>]
    /\ UNCHANGED <<file, torn, ep, orig, mon, hist, hang, play, bridge>>

\* The finally branch of the caller: ami_close(ami_sock).
AmiClose ==
    /\ ami.pc \in {"ready", "failed"}
    /\ \E logoff \in BOOLEAN : ami' = AmiClosed(ami, logoff)
    /\ UNCHANGED <<file, torn, ep, orig, mon, hist, hang, play, bridge>>

\* ------------------------------------------------------ multi-backend bridge
\* custom/multi-backend-bridge.py: the BACKENDS list in its order, by
\* position; their weights.
BackendNames == <<"primary", "lightweight", "fallback">>
Backends == DOMAIN BackendNames
Weights == <<100, 50, 10>>

\* Seconds between two readings of datetime.now() in a run, and the last
\* reading of a run.
TimeStep == 150
MaxNow == 450
\* time.time() - backend_start of one backend call, in seconds.
ResponseTimes == {1, 12}
\* len(text) of a request; 0 is a request without text.
TextLens == {0, 10, 60}
\* /tts requests in a run.
MaxTts == 3

\* One BACKENDS entry.  success_rate and avg_response_time are running
\* means over `requests`; the entry keeps them as their sums,
\* success_sum = success_rate * requests and
\* time_sum = avg_response_time * requests, compared in exact arithmetic.
NewBackend ==
    [enabled |-> TRUE, failures |-> 0, last_failure |-> None,
     requests |-> 0, success_sum |-> 0, time_sum |-> 0]

NoTts ==
    [pc |-> "idle", len |-> 0, backend |-> None, attempt |-> 0,
     answer |-> "", avail |-> {}, tried |-> {}]

IdleBridge ==
    [BACKENDS |-> [b \in Backends |-> NewBackend], now |-> 0,
     tts |-> NoTts, served |-> 0]

\* The sort key of the short-text branch as a fraction <<num, den>>.
ShortKey(r) ==
    IF r.requests > 0 THEN <<r.time_sum, r.requests>> ELSE <<untried_key, 1>>

\* backend["score"] as a fraction <<num, den>>:
\* success_rate * 0.6 + (1 - min(avg_response_time, 10) / 10) * 0.2
\* + weight / 100 * 0.2, or weight / 100 for a backend without requests.
Min(a, b) == IF a < b THEN a ELSE b

Score(r, w) ==
    IF r.requests > 0
    THEN <<300 * r.success_sum + 100 * r.requests
           - 10 * Min(r.time_sum, slow_time * r.requests) + w * r.requests,
           500 * r.requests>>
    ELSE <<w, 100>>

FracLess(x, y) == x[1] * y[2] < y[1] * x[2]

\* b sorts before c: sorted() is stable, so equal keys keep the order of
\* BACKENDS.
SortsBefore(B, len, b, c) ==
    LET lessBC == IF len < short_text
                  THEN FracLess(ShortKey(B[b]), ShortKey(B[c]))
                  ELSE FracLess(Score(B[c], Weights[c]), Score(B[b], Weights[b]))
        lessCB == IF len < short_text
                  THEN FracLess(ShortKey(B[c]), ShortKey(B[b]))
                  ELSE FracLess(Score(B[b], Weights[b]), Score(B[c], Weights[c]))
    IN lessBC \/ (~lessCB /\ b < c)

available_backends(B) == {b \in Backends : B[b].enabled}

\* select_backend(text_length): None, or the first of the sorted enabled
\* backends.
select_backend(B, len) ==
    IF available_backends(B) = {} THEN None
    ELSE Some(CHOOSE b \in available_backends(B) :
                \A c \in available_backends(B) \ {b} : SortsBefore(B, len, b, c))

\* check_circuit_breaker(backend): the entry afterwards.
check_circuit_breaker(r, now) ==
    IF r.enabled THEN r
    ELSE IF r.last_failure # None /\ now - r.last_failure[1] > CIRCUIT_BREAKER_TIMEOUT
         THEN [r EXCEPT !.enabled = TRUE]
         ELSE r

\* update_backend_stats(backend_name, success, response_time): the
\* entry afterwards.
update_backend_stats(r, success, response_time, now) ==
    LET counted == [r EXCEPT !.requests = @ + 1,
                             !.success_sum = @ + (IF success THEN 100 ELSE 0),
                             !.time_sum = @ + response_time]
    IN IF success
       THEN [counted EXCEPT !.failures = 0]
       ELSE [counted EXCEPT !.failures = @ + 1,
                            !.last_failure = Some(now),
                            !.enabled = IF r.failures + 1 >= MAX_FAILURES
                                        THEN FALSE ELSE @]

\* What one backend call can come to: the audio is saved, the backend
\* answers another status than 200, the request raises a
\* RequestException, or saving the audio raises another exception.
CallOutcomes == {"ok", "status", "exception", "oserror"}

\* tts_endpoint up to its first backend call.
TtsReq ==
    /\ bridge.tts.pc \in {"idle", "done"}
    /\ bridge.served < MaxTts
    /\ \E len \in TextLens, cached \in BOOLEAN :
        LET req == [NoTts EXCEPT !.len = len]
            first == select_backend(bridge.BACKENDS, len)
        IN bridge' = [bridge EXCEPT
               !.served = @ + 1,
               !.tts =
                   IF len = 0
                   THEN [req EXCEPT !.pc = "done", !.answer = "No text provided"]
                   ELSE IF cached
                   THEN [req EXCEPT !.pc = "done", !.answer = "success"]
                   ELSE IF first = None
                   THEN [req EXCEPT !.pc = "done",
                                    !.answer = "No TTS backends available"]
                   ELSE [req EXCEPT !.pc = "trying", !.backend = first,
                                    !.avail = available_backends(bridge.BACKENDS)]]
    /\ UNCHANGED <<file, torn, ep, orig, mon, hist, hang, play, ami>>

\* One pass of the loop over range(len(BACKENDS)): the call of the
\* selected backend, its statistics, the next selection, and what
\* follows the loop when this was its last pass.
TtsAttempt ==
    /\ bridge.tts.pc = "trying"
    /\ \E outcome \in CallOutcomes, response_time \in ResponseTimes,
          converted \in BOOLEAN :
        LET b == bridge.tts.backend[1]
            t == [bridge.tts EXCEPT !.tried = @ \cup {b}]
            B == IF outcome = "oserror" THEN bridge.BACKENDS
                 ELSE [bridge.BACKENDS EXCEPT
                          ![b] = update_backend_stats(@, outcome = "ok",
                                                      response_time, bridge.now)]
            next == select_backend(B, t.len)
        IN bridge' = [bridge EXCEPT
               !.BACKENDS = B,
               !.tts =
                   IF outcome = "oserror"
                   THEN [t EXCEPT !.pc = "done", !.answer = "error"]
                   ELSE IF outcome = "ok"
                   THEN [t EXCEPT !.pc = "done",
                                  !.answer = IF converted THEN "success"
                                             ELSE "Failed to convert audio"]
                   ELSE IF t.attempt + 1 = Len(BackendNames) \/ next = None
                   THEN [t EXCEPT !.pc = "done", !.backend = next,
                                  !.answer = "All TTS backends failed"]
                   ELSE [t EXCEPT !.attempt = @ + 1, !.backend = next]]
    /\ UNCHANGED <<file, torn, ep, orig, mon, hist, hang, play, ami>>

\* health_check: check_circuit_breaker on every backend.
Health ==
    /\ bridge' = [bridge EXCEPT
           !.BACKENDS = [b \in Backends |->
                            check_circuit_breaker(bridge.BACKENDS[b], bridge.now)]]
    /\ UNCHANGED <<file, torn, ep, orig, mon, hist, hang, play, ami>>

\* Time passes.
Tick ==
    /\ bridge.now < MaxNow
    /\ bridge' = [bridge EXCEPT !.now = @ + TimeStep]
    /\ UNCHANGED <<file, torn, ep, orig, mon, hist, hang, play, ami>>

\* ------------------------------------------------------ specifications
\* The server has started: no record file, no request yet.
Init ==
    /\ file = <<>>
    /\ torn = FALSE
    /\ ep = [c \in Calls |-> IdleEp]
    /\ orig = [c \in Calls |-> IdleOrig]
    /\ mon = [c \in Calls |-> IdleMon]
    /\ hist = [c \in Calls |-> IdleHist]
    /\ hang = [h \in Hangups |-> FreeHang]
    /\ play = FreePlay
    /\ ami = IdleAmi
    /\ bridge = IdleBridge

Next ==
    \/ \E c \in Calls :
        \/ EpLoad(c) \/ EpOpen(c) \/ EpWrite(c)
        \/ OrigRun(c) \/ OrigLoad(c) \/ OrigOpen(c) \/ OrigWrite(c)
        \/ MonStart(c) \/ MonRun(c)
        \/ MonLoad(c) \/ MonOpen(c) \/ MonWrite(c)
    \/ \E h \in Hangups :
        \/ \E c \in Calls : HangupReq(h, c)
        \/ HangRun(h) \/ HangOpen(h) \/ HangWrite(h)

Spec == Init /\ [][Next]_vars

\* One call whose legs were originated: its record is "dialing" with its
\* room, the originator has returned and the monitor thread has just been
\* started.  Nothing else runs, and the switch may report any channels.
InitMon ==
    /\ \E room \in Rooms :
        /\ file = <<[NewRecord(1) EXCEPT !.status = "dialing",
                                         !.conference_room = Some(room)]>>
    /\ orig = [c \in Calls |->
                 IF c = 1
                 THEN [IdleOrig EXCEPT !.pc = "done", !.res = "written",
                                       !.upd = [status |-> "dialing",
                                                data |-> NoData]]
                 ELSE IdleOrig]
    /\ torn = FALSE
    /\ ep = [c \in Calls |-> IF c = 1 THEN [IdleEp EXCEPT !.pc = "done"] ELSE IdleEp]
    /\ mon = [c \in Calls |-> IF c = 1 THEN [IdleMon EXCEPT !.pc = "sleep5"] ELSE IdleMon]
    /\ hist = [c \in Calls |-> IdleHist]
    /\ hang = [h \in Hangups |-> FreeHang]
    /\ play = FreePlay
    /\ ami = IdleAmi
    /\ bridge = IdleBridge

NextMon ==
    \/ MonStart(1) \/ MonConnect(1)
    \/ MonCore(1) \/ MonConf(1) \/ MonCli(1) \/ MonTimeout(1)
    \/ MonLoad(1) \/ MonOpen(1) \/ MonWrite(1)

MonSpec == InitMon /\ [][NextMon]_vars

\* One call's record as the originator, the monitor and teardown can
\* leave it (a "connected" record may have lost its room to a stale
\* write); nothing else runs, one play-tts request may arrive.
StoredStates ==
    {<<"initiated", FALSE>>, <<"failed", FALSE>>, <<"dialing", TRUE>>,
     <<"connected", TRUE>>, <<"connected", FALSE>>, <<"completed", TRUE>>}

InitPlay ==
    /\ \E st \in StoredStates, room \in Rooms :
        file = <<[NewRecord(1) EXCEPT
                     !.status = st[1],
                     !.conference_room = IF st[2] THEN Some(room) ELSE None,
                     !.end_time = (st[1] = "completed"),
                     !.error = (st[1] = "failed")]>>
    /\ torn = FALSE
    /\ ep = [c \in Calls |-> IF c = 1 THEN [IdleEp EXCEPT !.pc = "done"] ELSE IdleEp]
    /\ orig = [c \in Calls |-> IdleOrig]
    /\ mon = [c \in Calls |-> IdleMon]
    /\ hist = [c \in Calls |-> IdleHist]
    /\ hang = [h \in Hangups |-> FreeHang]
    /\ play = FreePlay
    /\ ami = IdleAmi
    /\ bridge = IdleBridge

NextPlay ==
    \/ PlayReq(1)
    \/ PlayCheck \/ PlayCore \/ PlayConf \/ PlayCli \/ PlayAmi \/ PlayRun

PlaySpec == InitPlay /\ [][NextPlay]_vars

\* The bridge alone: /tts requests one after another, /health calls and
\* the clock between their backend calls.
NextBridge == TtsReq \/ TtsAttempt \/ Health \/ Tick

BridgeSpec == Init /\ [][NextBridge]_vars

\* sock.recv(1024) without a timeout: the banner read of ami_connect and
\* the first read of ami_send_action wait until the switch sends
\* something.  A switch that stays silent leaves the thread in recv.
MonBlock(c) ==
    /\ mon[c].pc \in {"connect", "core", "conf"}
    /\ mon[c].pc = "core" => KeepWaiting(mon[c].total_waited)
    /\ mon' = [mon EXCEPT ![c].pc = "blocked"]
    /\ UNCHANGED <<file, torn, ep, orig, hist, hang, play, ami, bridge>>

\* The monitor of MonSpec with a switch that may also stay silent; the
\* thread takes its next step whenever it has one.
NextMonLive == NextMon \/ MonBlock(1)

MonLiveSpec == InitMon /\ [][NextMonLive]_vars /\ WF_vars(NextMonLive)

\* A reply in several blocks, as for CoreShowChannels: the response block,
\* then one block per event, each ended by a blank line and each delivered
\* in a read of its own.
Block == <<"x">> \o Terminator

BlockStreams == {[i \in 1..k |-> Block] : k \in 1..MaxBlocks}

\* A recv result that is data: a text that is not the end of the stream.
IsData(r) == IsText(r) /\ r # <<>>

\* What an action left in the socket: the texts the switch had sent for
\* it that its reads did not take, up to the first result that is no
\* data.
Unread(a) ==
    LET rest == SubSeq(a.stream, a.used + 1, Len(a.stream))
        n == CHOOSE k \in 0..Len(rest) :
                 /\ \A i \in 1..k : IsData(rest[i])
                 /\ k = Len(rest) \/ ~IsData(rest[k + 1])
    IN SubSeq(rest, 1, n)

\* An action that the switch answers in blocks.
AmiList ==
    /\ ami.pc = "ready"
    /\ \E stream \in BlockStreams :
        LET r == AmiSendAction(TRUE, stream)
        IN ami' = [ami EXCEPT !.pc = "replied", !.stream = stream,
                              !.used = r.used, !.result = r.result]
    /\ UNCHANGED <<file, torn, ep, orig, mon, hist, hang, play, bridge>>

\* The caller sends its next action on the same socket (the monitor's
\* ConfbridgeList after CoreShowChannels): recv gives first what is still
\* in the socket, then the reply to this action.  The connection is up:
\* every read of the action before gave data.
AmiNext ==
    /\ ami.pc = "replied"
    /\ ami.result # None
    /\ \A i \in DOMAIN ami.stream : i <= ami.used => IsData(ami.stream[i])
    /\ ami.left = <<>>
    /\ \E stream \in Streams :
        LET rest == Unread(ami)
            r == AmiSendAction(TRUE, rest \o stream)
        IN ami' = [ami EXCEPT !.stream = rest \o stream, !.left = rest,
                              !.used = r.used, !.result = r.result]
    /\ UNCHANGED <<file, torn, ep, orig, mon, hist, hang, play, bridge>>

\* An AMI session with actions that follow one another on its socket.
NextAmiSeq ==
    AmiConnect \/ AmiSend \/ AmiList \/ AmiNext \/ AmiReturn \/ AmiClose

AmiSeqSpec == Init /\ [][NextAmiSeq]_vars

\* One AMI session as the originator, the monitor and the injector run it:
\* ami_connect, actions while it holds a socket, ami_close in the finally
\* branch.
NextAmi == AmiConnect \/ AmiSend \/ AmiReturn \/ AmiClose

AmiSpec == Init /\ [][NextAmi]_vars

\* ------------------------------------------------- the stored records
\* The record file as a reader finds it between two writes.
HasRec(c) == IndexOf(file, c) # 0
Rec(c) == file[IndexOf(file, c)]

\* The status edges: initiated to dialing or failed, dialing to connected,
\* failed or completed, connected to completed.
Edges ==
    {<<"initiated", "dialing">>, <<"initiated", "failed">>,
     <<"dialing", "connected">>, <<"dialing", "failed">>,
     <<"dialing", "completed">>, <<"connected", "completed">>}

Terminal == {"completed", "failed"}

\* The fields update_call_status adds to a record as additional data.
\* conference_room and channels hold a value, the others are kept as
\* "the field is in the record".
ValueFields == {"conference_room", "channels"}
FlagFields == {"end_time", "error", "error_msg"}

\* A step in which one of call c's own writers finishes its
\* update_call_status by writing the file.
OwnWrite(c) ==
    \/ orig[c].pc = "write" /\ orig'[c].pc = "done"
    \/ mon[c].pc = "write" /\ mon'[c].pc = "done"
    \/ \E h \in Hangups :
           hang[h].call = c /\ hang[h].pc = "write" /\ hang'[h].pc = "done"

\* Nothing runs and nothing is pending: every coroutine and thread is
\* before its start or has returned, and the file is whole.
Quiescent ==
    /\ ~torn
    /\ \A c \in Calls :
        /\ ep[c].pc \in {"idle", "done"}
        /\ orig[c].pc \in {"idle", "done"}
        /\ mon[c].pc \in {"idle", "done"}
    /\ \A h \in Hangups : hang[h].pc \in {"free", "done"}

\* C1: the stored status of a call changes only along the edges of the
\* status machine; it never moves backward and never skips to a state that
\* is not a listed successor.
C1_StatusFollowsEdges ==
    [][\A c \in Calls :
          HasRec(c) /\ HasRec(c)' /\ Rec(c)'.status # Rec(c).status
              => <<Rec(c).status, Rec(c)'.status>> \in Edges]_vars

\* C2: completed and failed are terminal; once a call's stored status is
\* one of them, no later step changes it.
C2_TerminalIsFinal ==
    [][\A c \in Calls :
          HasRec(c) /\ Rec(c).status \in Terminal /\ HasRec(c)'
              => Rec(c)'.status = Rec(c).status]_vars

\* C3: updates of one call's record are atomic; when a writer of the call
\* finishes its update, every field another update had stored for the call
\* is still in the record (no update is lost).
C3_NoLostUpdate ==
    [][\A c \in Calls :
          HasRec(c) /\ OwnWrite(c)
              => /\ HasRec(c)'
                 /\ \A f \in ValueFields :
                        Rec(c)[f] # None => Rec(c)'[f] = Rec(c)[f]
                 /\ \A f \in FlagFields : Rec(c)[f] => Rec(c)'[f]]_vars

\* C4: a call whose originator has written "dialing" does not stay
\* unconnected; once every thread has run to its end, the call is marked
\* connected (or was hung up from there).
C4_DialingEndsConnected ==
    \A c \in Calls :
        Quiescent /\ orig[c].pc = "done" /\ orig[c].res = "written"
                  /\ orig[c].upd.status = "dialing"
            => HasRec(c) /\ Rec(c).status \in {"connected", "completed"}

\* C8: when the connection to the switch fails, or sending either
\* Originate fails, the originator marks the call failed with an error
\* text and no monitor is started for it.
C8_OriginateFailureFails ==
    \A c \in Calls :
        /\ orig[c].agent_resp = "none" \/ orig[c].customer_resp = "none"
               => orig[c].upd.status = "failed" /\ mon[c].pc = "idle"
        /\ orig[c].pc = "load" /\ orig[c].upd.status = "failed"
               => orig[c].upd.data = [error |-> TRUE] /\ mon[c].pc = "idle"

\* C10: a call's conference_room, once stored, is never changed and never
\* removed.
C10_RoomIsStable ==
    [][\A c \in Calls :
          HasRec(c) /\ Rec(c).conference_room # None
              => HasRec(c)' /\ Rec(c)'.conference_room = Rec(c).conference_room]_vars

\* ---------------------------------------------- the monitor run alone
\* The monitor of call 1 has taken an exit of its loop.
Marked == hist[1].how # "none"
\* The monitor of call 1 is inside its polling loop.
Polling == mon[1].pc \in {"core", "conf", "cli"}

\* Every reply so far arrived and listed no channel of the call; the CLI
\* printed nothing.
ZeroSwitch == hist[1].seen = {} /\ ~hist[1].failed /\ ~hist[1].junk

\* C5: with a switch that reports no channel on any query, the monitor
\* marks the call connected exactly when total_waited reaches
\* max_wait_time (30, after 15 passes of 2), not earlier and not later.
C5_ZeroChannelsTimeout ==
    ZeroSwitch =>
        /\ Marked => hist[1].how = "timeout" /\ hist[1].at = max_wait_time
        /\ Polling => /\ mon[1].total_waited <= max_wait_time
                      /\ mon[1].total_waited % wait_interval = 0
                      /\ mon[1].total_waited = max_wait_time => mon[1].pc = "core"
        /\ mon[1].pc = "done"
               => Marked /\ Rec(1).status = "connected"
                         /\ Rec(1).channels = Some({})

C5_TimedOut ==
    /\ ZeroSwitch
    /\ mon[1].pc = "done"
    /\ hist[1].how = "timeout"
    /\ hist[1].at = max_wait_time
    /\ Rec(1).status = "connected"

\* The listing names two different channels, one with the agent's
\* sip_name and one with the destination.
TwoMatching(active) ==
    \E a, d \in Range(active) : a # d /\ ContainsSip(a) /\ ContainsDest(d)

\* The first channel with the sip_name and the first channel with the
\* destination are two different channels.
TwoFirstMatches(active) ==
    \E i, j \in DOMAIN active :
        /\ i # j
        /\ ContainsSip(active[i])
        /\ \A k \in 1..(i - 1) : ~ContainsSip(active[k])
        /\ ContainsDest(active[j])
        /\ \A k \in 1..(j - 1) : ~ContainsDest(active[k])

\* The monitor left its loop in the first pass.
FirstPassOnly ==
    /\ Polling => mon[1].total_waited = 0
    /\ Marked => hist[1].at = 0 /\ hist[1].how \in {"detect", "error"}
    /\ mon[1].pc = "done" => Marked /\ Rec(1).status = "connected"

OneSwitch(ch) ==
    /\ hist[1].seen = {ch}
    /\ ~hist[1].failed /\ ~hist[1].junk /\ ~hist[1].empties

\* C7: with a switch that reports one and the same channel at every
\* pass, the monitor does not mark the call connected while total_waited
\* is below 10, and marks it at a pass within max_wait_time.
C7_OneChannelGrace ==
    \A ch \in Channels :
        OneSwitch(ch) =>
            /\ Marked => /\ hist[1].how = "grace"
                         /\ hist[1].at >= grace_wait
                         /\ hist[1].at < max_wait_time
            /\ Polling => mon[1].total_waited <= grace_wait
            /\ mon[1].pc = "done" => Marked /\ Rec(1).status = "connected"

C7_MarkedAfterGrace ==
    \E ch \in Channels :
        /\ OneSwitch(ch)
        /\ mon[1].pc = "done"
        /\ hist[1].how = "grace"
        /\ hist[1].at = grace_wait
        /\ Rec(1).status = "connected"
        /\ Rec(1).channels = Some({ch})

\* C9: the monitor never writes "failed"; whenever connecting to the
\* switch or a reply fails, it marks the call connected.
C9_MonitorNeverFails ==
    /\ mon[1].upd.status \in {"", "connected"}
    /\ HasRec(1) /\ Rec(1).status \in {"dialing", "connected"}
    /\ hist[1].failed
           => /\ hist[1].how = "error"
              /\ mon[1].pc \in {"load", "trunc", "write", "done"}
              /\ mon[1].upd.status = "connected"
              /\ mon[1].pc = "done"
                     => Rec(1).status = "connected" /\ Rec(1).error_msg

C9_ErrorMarkedConnected ==
    /\ hist[1].failed
    /\ hist[1].at > 0
    /\ mon[1].pc = "done"
    /\ Rec(1).status = "connected"
    /\ Rec(1).error_msg

\* ------------------------------------------------- rooms and teardown
Active == {"dialing", "connected"}

\* C11: no two calls that are active at the same time (stored status
\* dialing or connected) have the same conference_room.
C11_ActiveRoomsDiffer ==
    \A c, d \in Calls :
        /\ c # d
        /\ HasRec(c) /\ Rec(c).status \in Active /\ Rec(c).conference_room # None
        /\ HasRec(d) /\ Rec(d).status \in Active /\ Rec(d).conference_room # None
        => Rec(c).conference_room # Rec(d).conference_room

\* A step in which hangup task h runs "confbridge kick <room> all".
Kicks(h) == ~hang[h].kicked /\ hang'[h].kicked

\* C12: teardown is idempotent; the eviction command runs at most once
\* per call whatever hangup requests arrive, and never for a call whose
\* record is already completed.
C12_KickOnce ==
    [][\A h \in Hangups :
          Kicks(h) =>
              /\ \A g \in Hangups :
                     g # h /\ hang[g].call = hang[h].call => ~hang[g].kicked
              /\ ~(HasRec(hang[h].call)
                     /\ Rec(hang[h].call).status = "completed")]_vars

\* C13: when hangup_call fails (no conference room in the record it was
\* given, or the eviction command exits with an error) it leaves the call
\* record as it is: it writes nothing, so no "completed" and no end_time
\* come from it.  Only a task whose eviction succeeded writes.
C13_FailedHangupWritesNothing ==
    [][\A h \in Hangups :
          /\ hang[h].pc = "start" /\ hang'[h].pc # "start" /\ ~hang'[h].kicked
                 => /\ hang'[h].pc = "done" /\ hang'[h].res = "error"
                    /\ file' = file /\ torn' = torn
          /\ hang[h].pc = "write" /\ hang'[h].pc = "done"
                 => hang[h].kicked /\ hang[h].room # None
          /\ hang[h].pc = "done" => hang'[h] = hang[h]]_vars

C13_HangupFailed ==
    \E h \in Hangups :
        /\ hang[h].pc = "done" /\ hang[h].res = "error" /\ ~hang[h].kicked
        /\ HasRec(hang[h].call)
        /\ Rec(hang[h].call).conference_room # None
        /\ Rec(hang[h].call).status = "connected"
        /\ ~Rec(hang[h].call).end_time

\* ------------------------------------------------- the injector alone
\* C14: audio injection never changes a call record; no step of
\* play_tts_in_conference, on a path that succeeds or on one that fails,
\* changes the record file.
C14_PlayLeavesRecords ==
    [][play' # play => file' = file /\ torn' = torn]_vars

C14_PlayFailedAfterCommands ==
    /\ play.pc = "done" /\ play.res = "failed"
    /\ play.ami_sent # <<>> /\ play.cli_sent # <<>>
    /\ Rec(1).status = "connected"

\* C15: a playback task is started only for a call whose status is
\* connected when the play-tts request is handled.
C15_PlayOnlyConnected == play.pc # "free" => play.status = "connected"

\* The channels a playback command was issued for.
PlayedTo == Range(play.ami_sent) \cup Range(play.cli_sent)

\* The conference listing, the CLI listing and the endpoint-name match
\* have all been tried and found no channel.
NoneDiscovered ==
    /\ play.core # None /\ play.core[1].ok
    /\ play.listed = Some(<<>>)
    /\ play.cli # None
    /\ \A i \in DOMAIN play.cli[1] : play.cli[1][i] = JunkRow
    /\ \A ch \in Range(play.core[1].chans) : ~EndpointMatch(ch)

\* C16: when no channel is discovered for the room and more channels are
\* active than the last-resort cap (5), playback fails and no playback
\* command is issued; commands go to all active channels only when there
\* are between 1 and 5 of them.
C16_LastResortCap ==
    NoneDiscovered =>
        LET active == play.core[1].chans
        IN /\ Len(active) > last_resort_cap \/ active = <<>>
                  => /\ play.pc = "done" /\ play.res = "failed"
                     /\ PlayedTo = {}
           /\ PlayedTo # {}
                  => /\ Len(active) \in 1..last_resort_cap
                     /\ PlayedTo \subseteq Range(active)

C16_TooManyActive ==
    /\ NoneDiscovered
    /\ Len(play.core[1].chans) = last_resort_cap + 1
    /\ play.pc = "done" /\ play.res = "failed"
    /\ PlayedTo = {}

\* --------------------------------------------------- the AMI session
\* The texts of the first n recv results, one after the other.
RECURSIVE TextUpTo(_, _)
TextUpTo(stream, n) ==
    IF n = 0 THEN <<>> ELSE TextUpTo(stream, n - 1) \o stream[n]

\* The first n recv results are non-empty texts, and the n-th is the first
\* with which the blank-line terminator is in the accumulated text.
CompletesAt(stream, n) ==
    /\ n \in DOMAIN stream
    /\ \A i \in 1..n : IsText(stream[i]) /\ stream[i] # <<>>
    /\ HasTerminator(TextUpTo(stream, n))
    /\ \A i \in 1..(n - 1) : ~HasTerminator(TextUpTo(stream, i))

\* C17: ami_send_action returns the whole accumulated text once the
\* blank-line terminator is in it, also when the terminator is completed
\* only by a second or later read: the text of every read up to and
\* including that one, and it reads no further.
C17_FullResponseAtTerminator ==
    \A n \in DOMAIN ami.stream :
        CompletesAt(ami.stream, n)
            => /\ ami.result = Some(TextUpTo(ami.stream, n))
               /\ ami.used = n

C17_TerminatorInSecondRead ==
    /\ CompletesAt(ami.stream, 2)
    /\ ~HasTerminator(ami.stream[2])
    /\ ami.result = Some(ami.stream[1] \o ami.stream[2])

\* C18: every AMI socket that was opened is closed again when its user
\* is through, on every exit path, also when ami_connect failed after the
\* socket was opened and when the Logoff send of ami_close fails.
C18_SocketsClosed == ami.pc = "closed" => ami.fd \in {"none", "closed"}

\* ------------------------------------------- retention and ordering
\* C19: call records are never deleted; a record the initiate endpoint
\* has stored is in the file after every later write, whatever other
\* calls' creations and updates interleave with it.
C19_RecordsStay ==
    [][\A c \in Calls : HasRec(c) => HasRec(c)']_vars

\* The originator of call c has got through ami_send_action for this leg
\* and the action went out.
Sent(resp) == resp \in {"ok", "read"}

\* C20: within one call, both Originate commands are sent before the
\* monitor thread is started, and the monitor thread is started before
\* any write of "connected" for the call.
C20_OriginateMonitorConnected ==
    \A c \in Calls :
        /\ mon[c].pc # "idle" /\ orig[c].pc # "done"
               => Sent(orig[c].agent_resp) /\ Sent(orig[c].customer_resp)
        /\ HasRec(c) /\ Rec(c).status = "connected" => mon[c].pc # "idle"

\* ------------------------------------------------- the room of a call
\* A string of exactly room_digits decimal digits.
IsRoomId(r) == r \in [1..room_digits -> 0..9]

\* C21: every stored record whose status is "dialing" carries a
\* conference_room that is a string of exactly 6 decimal digits.
C21_DialingHasRoom ==
    \A c \in Calls :
        HasRec(c) /\ Rec(c).status = "dialing"
            => /\ Rec(c).conference_room # None
               /\ IsRoomId(Rec(c).conference_room[1])

\* The originator's update of a call has been written and is in the file.
C21_DialingStored ==
    \E c \in Calls :
        /\ orig[c].pc = "done" /\ orig[c].res = "written"
        /\ HasRec(c) /\ Rec(c).status = "dialing"

\* ---------------------------------------------------------- isolation
\* C22: calls are isolated from each other; a write that finishes an
\* update_call_status of call a (by a's originator, monitor or teardown)
\* leaves every field of another call's stored record as it was.
C22_OtherRecordsUntouched ==
    [][\A a, b \in Calls :
          a # b /\ OwnWrite(a) /\ HasRec(b) /\ HasRec(b)'
              => Rec(b)' = Rec(b)]_vars

\* ---------------------------------------------- the monitor's channels
\* The monitor of call 1 is inside the update_call_status that ends its
\* run.
Marking == mon[1].pc \in {"load", "trunc", "write"}

\* C23: whenever the monitor marks a call connected because it detected
\* channels (in the channel list, the conference listing or the CLI
\* listing), the same update stores the channels observed so far in the
\* record's channels field.
C23_DetectionStoresChannels ==
    Marking /\ hist[1].how \in {"detect", "grace"}
        => /\ mon[1].upd.status = "connected"
           /\ "channels" \in DOMAIN mon[1].upd.data
           /\ mon[1].upd.data.channels # None

\* ------------------------------------------- the socket after a failure
\* C24: after ami_send_action has failed on a socket (result None) the
\* caller sends no further action on it except the closing Logoff; for the
\* originator, no customer Originate follows a failed agent Originate.
C24_NoSendAfterFailure ==
    \A c \in Calls :
        orig[c].agent_resp = "none" => orig[c].customer_resp = "unsent"

\* ------------------------------------------------ one monitor per call
\* The monitor thread of call c exists (it runs or has returned).
MonitorStarted(c) == mon[c].pc # "idle"

\* A step that starts the monitor thread of call c.
StartsMonitor(c) == mon[c].pc # "sleep5" /\ mon'[c].pc = "sleep5"

\* C25: at most one monitor thread is ever started per call, and a call
\* that the originator set to failed has no monitor thread: a stored
\* status "failed" and a started monitor never hold together.
C25_OneMonitorNoneIfFailed ==
    [][\A c \in Calls :
          /\ StartsMonitor(c) => ~MonitorStarted(c) /\ orig[c].pc = "start"
          /\ MonitorStarted(c) => MonitorStarted(c)'
          /\ orig[c].upd.status = "failed" => ~MonitorStarted(c)
          /\ HasRec(c) /\ Rec(c).status = "failed" => ~MonitorStarted(c)]_vars

\* One call is stored as failed while the monitor of the other call has
\* been started.
C25_FailedBesideMonitored ==
    \E c, d \in Calls :
        /\ HasRec(c) /\ Rec(c).status = "failed" /\ orig[c].pc = "done"
        /\ MonitorStarted(d)

\* ------------------------------------------------ the order of the legs
\* C26: the customer Originate is sent only after the agent Originate has
\* been sent (and the settle delay has passed), and both carry the room id
\* that is later stored in the record.
C26_CustomerAfterAgent ==
    \A c \in Calls :
        orig[c].customer_resp = "ok"
            => /\ orig[c].agent_resp = "ok"
               /\ orig[c].upd.status = "dialing"
               /\ orig[c].upd.data.conference_room = orig[c].room

\* ------------------------------------------------- the initiated state
\* C27: while a call's stored status is "initiated" nothing has been sent
\* to the switch for it; no Originate for either leg is issued before the
\* record leaves "initiated".
C27_InitiatedNothingSent ==
    \A c \in Calls :
        HasRec(c) /\ Rec(c).status = "initiated"
            => orig[c].agent_resp # "ok" /\ orig[c].customer_resp # "ok"

\* ------------------------------------------- the monitor's channel set
\* C28: within one run of monitor_call_status the set of connected
\* channels only grows; the set at each poll contains the set at the
\* previous poll, and so do the channels an update stores.
C28_ConnectedOnlyGrows ==
    [][/\ Polling /\ Polling' => mon[1].connected \subseteq mon'[1].connected
       /\ Polling /\ Marking' /\ "channels" \in DOMAIN mon'[1].upd.data
              => mon[1].connected \subseteq mon'[1].upd.data.channels[1]]_vars

\* The monitor starts a later pass with a channel it observed before.
C28_LaterPassWithChannels ==
    /\ mon[1].pc = "conf"
    /\ mon[1].total_waited >= wait_interval
    /\ mon[1].connected # {}

\* ------------------------------------------------- the monitor's end
\* C29: monitor_call_status always terminates; for any behaviour of the
\* switch it makes at most max_wait_time / wait_interval = 15 passes of
\* its loop and then ends, and it polls no more after its write of
\* "connected".
C29_MonitorTerminates ==
    /\ [](mon[1].total_waited <= max_wait_time)
    /\ [](mon[1].res = "written" => mon[1].pc = "done")
    /\ <>(mon[1].pc = "done")

\* ------------------------------------------- the playback strategies
\* q is the sequence of the first Len(q) members of s.
IsPrefix(q, s) == Len(q) <= Len(s) /\ q = SubSeq(s, 1, Len(q))

\* C30: the CLI "channel playback" fallback is attempted only if the AMI
\* Originate strategy reported success for no channel; each strategy goes
\* channel by channel and issues no further playback command after its
\* first success.
C30_FallbackOnlyWithoutSuccess ==
    /\ play.cli_sent # <<>>
           => /\ play.ami_sent = play.channels
              /\ \A i \in DOMAIN play.ami_got : ~play.ami_got[i]
    /\ IsPrefix(play.ami_sent, play.channels)
    /\ IsPrefix(play.cli_sent, play.channels)
    /\ Len(play.ami_got) = Len(play.ami_sent)
    /\ Len(play.cli_got) = Len(play.cli_sent)
    /\ \A i \in DOMAIN play.ami_got :
           play.ami_got[i] => i = Len(play.ami_sent)
    /\ \A i \in DOMAIN play.cli_got :
           play.cli_got[i] = "ok" => i = Len(play.cli_sent)

\* The primary strategy failed for two channels and the fallback
\* succeeded at the second.
C30_FallbackSucceededSecond ==
    /\ play.pc = "done" /\ play.res = "ok"
    /\ Len(play.channels) >= 2
    /\ play.ami_got = <<FALSE, FALSE>>
    /\ play.cli_got = <<"failed", "ok">>

\* ------------------------------------------------ the injector's record
\* The injector has looked at its record and found no room, no TTS path
\* or no TTS file.
InvalidRecord ==
    /\ play.pc \notin {"free", "start"}
    /\ play.room = None \/ play.tts # "ok"

\* C31: play_tts_in_conference fails fast on an invalid record; without a
\* conference_room or a tts_file it returns failure without opening an AMI
\* connection and without issuing any query or playback command.
C31_InvalidRecordFailsFast ==
    InvalidRecord
        => /\ play.pc = "done" /\ play.res = "failed"
           /\ play.conn = "none"
           /\ play.core = None /\ play.listed = None /\ play.cli = None
           /\ PlayedTo = {}

\* A request for a stored record that has lost its room.
C31_FailedWithoutRoom ==
    /\ InvalidRecord
    /\ play.room = None /\ play.status = "connected"
    /\ play.pc = "done"

\* ------------------------------------------------ the playback targets
\* The ConfbridgeList reply for the room named at least one channel.
RoomListed == play.listed # None /\ play.listed[1] # <<>>

\* C32: when the conference listing for the call's room returns at least
\* one channel, playback commands go only to channels of that listing;
\* channels outside the room are targeted only if the room listing is
\* empty, by endpoint-name match first and all active channels as the last
\* resort.
C32_TargetsFromRoomListing ==
    /\ RoomListed
           => /\ PlayedTo \subseteq Range(play.listed[1])
              /\ play.cli = None
              /\ play.how \in {"none", "conf"}
    /\ play.how \in {"cli", "match", "all"} => play.listed = Some(<<>>)
    /\ play.how = "match"
           => PlayedTo \subseteq {ch \in Range(play.core[1].chans) :
                                      EndpointMatch(ch)}
    /\ play.how = "all"
           => \A ch \in Range(play.core[1].chans) : ~EndpointMatch(ch)

\* The room listing named a channel, other channels were active on the
\* switch, and a playback command was issued.
C32_PlayedToListedOnly ==
    /\ RoomListed
    /\ play.core[1].ok
    /\ ~(Range(play.core[1].chans) \subseteq Range(play.listed[1]))
    /\ PlayedTo # {}

\* --------------------------------------------------- the error field
\* C33: the error field of a call record is set only on failure
\* transitions; a stored record that has an error field has status
\* "failed".
C33_ErrorOnlyWithFailed ==
    \A c \in Calls : HasRec(c) /\ Rec(c).error => Rec(c).status = "failed"

\* One call is stored as failed with its error, and the monitor of the
\* other call has stored the message of its own exception.
C33_ErrorBesideErrorMsg ==
    \E c, d \in Calls :
        /\ HasRec(c) /\ Rec(c).error
        /\ HasRec(d) /\ Rec(d).error_msg /\ Rec(d).status = "connected"

\* -------------------------------------------- the cumulative decision
\* The monitor's local state after the step of its position for a listing
\* that names the channel ch and nothing else.
AfterOnly(m, ch) ==
    CASE m.pc = "core" -> CoreStep(m, [ok |-> TRUE, chans |-> <<ch>>])
      [] m.pc = "conf" -> ConfStep(m, [ok |-> TRUE, chans |-> <<ch>>])
      [] m.pc = "cli" -> CliStep(m, <<ch>>)

\* The listing at the monitor's position counts the channel: the channel
\* list counts channels that contain the sip_name or the destination, the
\* conference and CLI listings count every channel.
Counted(m, ch) == m.pc = "core" => ContainsSip(ch) \/ ContainsDest(ch)

\* C34: the monitor's two-member decision is taken on the cumulative set
\* of distinct channels seen since monitoring started; when an earlier
\* poll reported only X and a later poll reports only Y, the monitor marks
\* the call connected at that poll although no single poll reported two
\* channels.
C34_CumulativeDecision ==
    /\ Polling /\ (mon[1].pc = "core" => KeepWaiting(mon[1].total_waited))
       /\ Cardinality(mon[1].connected) = 1
           => \A ch \in Channels \ mon[1].connected :
                  Counted(mon[1], ch)
                      => LET r == AfterOnly(mon[1], ch)
                         IN /\ r.pc = "load" /\ r.how = "detect"
                            /\ r.upd.status = "connected"
    /\ Polling => Cardinality(mon[1].connected) < 2

\* The call was marked connected on two channels that no single listing
\* reported together, at a poll after the first.
C34_MarkedAcrossPolls ==
    /\ Marking /\ hist[1].how = "detect"
    /\ Cardinality(hist[1].seen) = 2
    /\ hist[1].most = 1
    /\ hist[1].at >= wait_interval

\* ------------------------------------------------ one reply per action
\* The recv results that belong to the action itself.
OwnStream(a) == SubSeq(a.stream, Len(a.left) + 1, Len(a.stream))

\* C35: on one AMI connection the text ami_send_action returns for an
\* action consists only of data the switch sent in reply to that action;
\* when a reply comes in several blank-line-terminated blocks in separate
\* reads, no block is left unread and returned as the response to the
\* next action.
C35_ResponseIsOwnReply ==
    ami.pc = "replied" /\ ami.left # <<>>
        => ami.result = AmiSendAction(TRUE, OwnStream(ami)).result

\* ------------------------------------------------- accepted hangups
\* C36: every hangup request the endpoint accepts (status initiated,
\* dialing or connected) leads to the eviction command being issued for
\* the call's conference room and, when the command succeeds, to the
\* record reaching "completed" with an end_time.
C36_AcceptedHangupEvicts ==
    \A h \in Hangups :
        /\ hang[h].pc = "start" => hang[h].room # None
        /\ hang[h].pc = "done" /\ hang[h].kicked => hang[h].res = "written"

\* ------------------------------------------------------ the bridge's breaker
\* C39: in every reachable state of the bridge an enabled backend has
\* fewer than MAX_FAILURES consecutive failures, and the backend a /tts
\* request has selected has fewer than MAX_FAILURES as well.
C39_EnabledBelowMaxFailures ==
    /\ \A b \in Backends :
        bridge.BACKENDS[b].enabled => bridge.BACKENDS[b].failures < MAX_FAILURES
    /\ bridge.tts.pc = "trying" =>
        bridge.BACKENDS[bridge.tts.backend[1]].failures < MAX_FAILURES

\* ------------------------------------------------------ the bridge's fallback
\* C38: a /tts request answers "All TTS backends failed" only after
\* every backend that was enabled when the request selected its first
\* backend has been called at least once by this request.
C38_AllFailedAfterAllTried ==
    bridge.tts.answer = "All TTS backends failed" =>
        bridge.tts.avail \subseteq bridge.tts.tried

\* ------------------------------------------------------ the bridge's cooldown
\* The backend is disabled and more than CIRCUIT_BREAKER_TIMEOUT seconds
\* have passed since its last failure.
CooledDown(b) ==
    /\ ~bridge.BACKENDS[b].enabled
    /\ bridge.BACKENDS[b].last_failure # None
    /\ bridge.now - bridge.BACKENDS[b].last_failure[1] > CIRCUIT_BREAKER_TIMEOUT

\* This step is a /tts request reaching its call of select_backend.
Selects ==
    /\ bridge'.served = bridge.served + 1
    /\ \/ bridge'.tts.pc = "trying"
       \/ bridge'.tts.answer = "No TTS backends available"

\* C37: a /tts request that arrives after a disabled backend's cooldown
\* has elapsed finds that backend enabled when it selects a backend, so
\* no backend stays disabled while /tts requests keep arriving.
C37_SelectableAfterCooldown ==
    [][Selects => \A b \in Backends :
                     CooledDown(b) => bridge'.BACKENDS[b].enabled]_vars

====
